---- MODULE Spec2Model ----
(***************************************************************************)
(* ProGear Sales MCP Server: the token validation middleware               *)
(* (validateToken) that guards every /mcp/tools endpoint.                  *)
(*                                                                         *)
(* Strings are TLA+ strings, so startsWith and split are computed on the   *)
(* characters of the Authorization header.  A JavaScript value that may be *)
(* undefined is a sequence of length 0 (undefined) or 1 (the value).       *)
(***************************************************************************)
EXTENDS Naturals, Sequences, FiniteSets, TLC

\* Number of requests the server receives in one run of the model.
MaxReq == 2
\* Number of those requests that go to any of the tool routes
MaxToolReq == 1

Requests == 1..MaxReq

Undefined == <<>>
Some(v) == <<v>>
IsDefined(o) == o # <<>>
Val(o) == o[1]

---------------------------------------------------------------------------
(* JavaScript string helpers used by validateToken *)

\* String.prototype.startsWith
StartsWith(s, p) == Len(s) >= Len(p) /\ SubSeq(s, 1, Len(p)) = p

CharAt(s, i) == SubSeq(s, i, i)

Least(S) == CHOOSE m \in S : \A n \in S : m <= n

\* s.split(' ')[1]: the characters between the first space and the next
\* space (or the end of the string); undefined when s holds no space.
SplitSecond(s) ==
    LET spaces == {i \in 1..Len(s) : CharAt(s, i) = " "}
    IN  IF spaces = {} THEN Undefined
        ELSE LET a    == Least(spaces)
                 rest == {i \in spaces : i > a}
                 b    == IF rest = {} THEN Len(s) + 1 ELSE Least(rest)
             IN  Some(SubSeq(s, a + 1, b - 1))

\* a || b on an optional string: '' and undefined are both falsy
OrElse(o, d) == IF IsDefined(o) /\ Val(o) # "" THEN Val(o) ELSE d

---------------------------------------------------------------------------
(* The environment: what the process is started with, what clients send,  *)
(* and what the tokens they send contain.                                  *)

IssuerUrl   == "https://dev.okta.com/oauth2/aus1"
ForeignUrl  == "https://evil.example/oauth2/x"
SalesAud    == "api://progear-sales"
InventoryAud == "api://progear-inventory"

NodeEnvs  == {Undefined, Some("development"), Some("production")}
IssuerEnvs == {Undefined, Some(IssuerUrl)}
AudienceEnvs == {Undefined, Some(SalesAud)}

\* The compact JWS strings clients present, and what each decodes to:
\* the key that signed it and its claims.  Any other string is not a JWS.
JwtTable ==
    [t \in {"eyJ.ok.sig", "eyJ.forged.sig", "eyJ.iss.sig", "eyJ.aud.sig", "eyJ.exp.sig"} |->
        [ key |-> IF t = "eyJ.forged.sig" THEN "attacker-key" ELSE "okta-key",
          iss |-> IF t = "eyJ.iss.sig" THEN ForeignUrl ELSE IssuerUrl,
          aud |-> IF t = "eyJ.aud.sig" THEN InventoryAud ELSE SalesAud,
          expired |-> (t = "eyJ.exp.sig"),
          sub |-> "00u-sarah" ] ]

WellFormed(token) == token \in DOMAIN JwtTable

\* The keys published at <issuer>/v1/keys
RemoteKeys == {"okta-key"}

\* Authorization header values of the modelled requests
AuthHeaders ==
    { Undefined,
      Some("Basic demo-token"),
      Some("bearer eyJ.ok.sig"),
      Some("Bearer demo-token"),
      Some("Bearer demo-token-123 x"),
      Some("Bearer not-a-jwt") }
    \cup { Some("Bearer " \o t) : t \in DOMAIN JwtTable \ {"eyJ.iss.sig"} }

---------------------------------------------------------------------------
VARIABLES
    env,            \* process.env
    OKTA_ISSUER,    \* const OKTA_ISSUER
    OKTA_AUDIENCE,  \* const OKTA_AUDIENCE
    jwks,           \* let jwks: the remote key set resolver, or null (Undefined)
    keysCached,     \* whether the resolver holds the fetched key set
    reqs,           \* per request: the req/res pair and where its validateToken stands
    exchanges,      \* the exchanges prop of TokenExchangeCard
    session,        \* the signed-in user, the delegation assertion held for them, and what
                    \* the system log records of their exchanges
    issued,         \* the outcomes of the scoped access requests, oldest first
    nextEnv,        \* process.env of the Next.js application
    auth,           \* NextAuth: the JWT it keeps and the session it last returned
    debugResponse,  \* the last response of the debug-env route
    logPage         \* OktaSystemLog: its React state and its fetchLogs calls in flight

vars == <<env, OKTA_ISSUER, OKTA_AUDIENCE, jwks, keysCached, reqs, exchanges, session, issued,
          nextEnv, auth, debugResponse, logPage>>

\* The state of the MCP server and the state outside it
serverVars == <<env, OKTA_ISSUER, OKTA_AUDIENCE, jwks, keysCached, reqs>>
appVars    == <<nextEnv, auth, debugResponse, logPage>>
clientVars == <<exchanges, session, issued, appVars>>

NoSession == [user |-> Undefined, idJag |-> Undefined, logShape |-> Undefined]

\* The environment of the Next.js application as the README's table of
\* Vercel variables sets it (NEXT_PUBLIC_API_URL is left empty there)
DocumentedNextEnv ==
    [ NEXT_PUBLIC_OKTA_ISSUER |-> <<"https://your-org.okta.com">>,
      NEXT_PUBLIC_OKTA_DOMAIN |-> <<"https://your-org.okta.com">>,
      NEXT_PUBLIC_OKTA_CLIENT_ID |-> <<"0oa1client">>,
      OKTA_CLIENT_SECRET |-> <<"client-secret-1">>,
      NEXTAUTH_SECRET |-> <<"nextauth-secret-1">>,
      NEXTAUTH_URL |-> <<"https://your-project-name.vercel.app">>,
      NEXT_PUBLIC_API_URL |-> <<"">> ]

\* NextAuth before any sign-in: an empty JWT, no account seen, no session
NoAuth ==
    [ token |-> [sub |-> <<>>, accessToken |-> <<>>, idToken |-> <<>>, provider |-> <<>>],
      account |-> <<>>,
      session |-> <<>> ]

\* The section "Audit Trail (Okta Syslog)" open as defaultOpen has it, and
\* OktaSystemLog as useState initialises it, before the first render
FreshLogPage ==
    [ logs |-> <<>>, loading |-> TRUE, error |-> <<>>, lastRefresh |-> <<>>,
      open |-> TRUE, mounted |-> FALSE, instance |-> 0, calls |-> <<>> ]

NoResponse == [status |-> 0, body |-> ""]

\* A request that has not arrived yet
FreshReq ==
    [ pc |-> "idle",
      tool |-> "list_products",       \* the /mcp/tools route of the request
      param |-> Undefined,            \* req.params.productId / customerId
      body |-> Undefined,             \* req.body (undefined when nothing was parsed)
      category |-> Undefined,         \* req.query.category
      authorization |-> Undefined,    \* req.headers.authorization
      user |-> Undefined,             \* (req as any).user
      res |-> NoResponse,             \* what res.status(..).json(..) sent
      sent |-> 0,                     \* number of responses sent by the gate
      nextCalls |-> 0,                \* number of next() calls
      handlerRuns |-> 0,              \* runs of the downstream tool handler
      handlerUser |-> Undefined,      \* req.user as the tool handler saw it
      token |-> Undefined,            \* const token of the running call
      verifyCalls |-> 0,              \* calls of jwtVerify(token, jwks, ..)
      threw |-> FALSE,                \* an error escaped validateToken (unhandled rejection)
      coldCall |-> FALSE,             \* jwtVerify was called while no key set was cached
      logged |-> "" ]                 \* the last console message of the gate

\* createRemoteJWKSet(url): a resolver bound to url; it fetches nothing until
\* it is asked for a key.
createRemoteJWKSet(url) == [url |-> url]

\* Variant: module load leaves jwks null
LoadJwks_Null(issuer) == Undefined

\* let jwks = null; if (OKTA_ISSUER) jwks = createRemoteJWKSet(.../v1/keys)
LoadJwks(issuer) ==
    IF issuer # "" THEN Some(createRemoteJWKSet(issuer \o "/v1/keys")) ELSE Undefined

Init ==
    /\ env \in [ NODE_ENV : NodeEnvs,
                 OKTA_ISSUER : IssuerEnvs,
                 OKTA_CUSTOM_AUTH_SERVER_AUDIENCE : AudienceEnvs ]
    /\ OKTA_ISSUER = OrElse(env.OKTA_ISSUER, "")
    /\ OKTA_AUDIENCE = OrElse(env.OKTA_CUSTOM_AUTH_SERVER_AUDIENCE, "")
    /\ jwks = LoadJwks(OrElse(env.OKTA_ISSUER, ""))
    /\ keysCached = FALSE
    /\ reqs = [r \in Requests |-> FreshReq]
    /\ exchanges = <<>>
    /\ session = NoSession
    /\ issued = <<>>
    /\ nextEnv = DocumentedNextEnv
    /\ auth = NoAuth
    /\ debugResponse = Undefined
    /\ logPage = FreshLogPage

---------------------------------------------------------------------------
(* jose's jwtVerify(token, jwks, {issuer, audience}), by its outcome:      *)
(* parse the compact JWS, resolve the key from the remote key set, verify  *)
(* the signature, then validate the iss, aud and exp claims.  It resolves  *)
(* with the payload or throws.  keys is Undefined when the key set could   *)
(* not be fetched.  A falsy option (the empty string) is not compared.     *)

Thrown(e)   == [ok |-> FALSE, payload |-> Undefined, error |-> e]
Resolved(p) == [ok |-> TRUE, payload |-> Some(p), error |-> ""]

jwtVerify(token, keys, options) ==
    IF ~WellFormed(token) THEN Thrown("JWSInvalid")
    ELSE IF ~IsDefined(keys) THEN Thrown("JWKSFetchFailed")
    ELSE LET jwt == JwtTable[token] IN
         IF jwt.key \notin Val(keys) THEN Thrown("JWSSignatureVerificationFailed")
         ELSE IF options.issuer # "" /\ jwt.iss # options.issuer
              THEN Thrown("JWTClaimValidationFailed iss")
         ELSE IF options.audience # "" /\ jwt.aud # options.audience
              THEN Thrown("JWTClaimValidationFailed aud")
         ELSE IF jwt.expired THEN Thrown("JWTExpired")
         ELSE Resolved([sub |-> jwt.sub, iss |-> jwt.iss, aud |-> jwt.aud])

\* The token names a signing key that is not in the published key set
UnknownKey(token) == WellFormed(token) /\ JwtTable[token].key \notin RemoteKeys

\* The key set the resolver hands to jwtVerify.  It answers from a fresh
\* cache when the cache has the token's key; with no fresh cache, or for a
\* key the cache does not have, it fetches <issuer>/v1/keys, and when that
\* fetch fails there is no key set and the call throws.
GetKeys(cached, netOk, token) ==
    IF (cached /\ ~UnknownKey(token)) \/ netOk THEN Some(RemoteKeys) ELSE Undefined

---------------------------------------------------------------------------
(* validateToken, statement by statement *)

\* The ids of the mock data
ProductIds  == {"PROD-001", "PROD-002", "PROD-003", "PROD-004", "PROD-005"}
CustomerIds == {"CUST-001", "CUST-002", "CUST-003"}

\* The routes registered with validateToken, by tool name, and the requests
\* made to them: the routes with an id in the path are asked for an id that
\* exists and for one that does not.
ToolNames == {"list_products", "check_stock", "get_orders", "create_quote",
              "get_customer", "get_price"}
\* The bodies posted to create_quote as the handler finds them in req.body:
\* undefined (nothing parsed), {} , and objects whose productIds is an
\* array, a string or a number.
QuoteBodies ==
    { Undefined, Some([productIds |-> Undefined]) }
    \cup { Some([productIds |-> Some([type |-> t])]) : t \in {"array", "string", "number"} }
\* req.query.category as express's query parser gives it: undefined without
\* the key, a string for ?category=Tennis, an array when the key is repeated
Categories == { Undefined, Some([type |-> "string"]), Some([type |-> "array"]) }
ToolCalls ==
    [tool : {"list_products"}, param : {Undefined}, body : {Undefined}, category : Categories]
    \cup [tool : {"get_orders"}, param : {Undefined}, body : {Undefined}, category : {Undefined}]
    \cup [tool : {"create_quote"}, param : {Undefined}, body : QuoteBodies, category : {Undefined}]
    \cup [tool : {"check_stock", "get_price"}, param : {Some("PROD-001"), Some("PROD-999")},
          body : {Undefined}, category : {Undefined}]
    \cup [tool : {"get_customer"}, param : {Some("CUST-003"), Some("CUST-999")},
          body : {Undefined}, category : {Undefined}]

NotFound(what) == [status |-> 404, body |-> what \o " not found"]
ToolResult(tool) == [status |-> 200, body |-> tool]
\* What express answers when a handler throws before it has sent anything
ServerError == [status |-> 500, body |-> "Internal Server Error"]

\* The create_quote handler throws: destructuring req.body when it is
\* undefined, or productIds?.includes when productIds is neither nullish
\* nor a value that has includes (an array or a string).
QuoteThrows(body) ==
    \/ ~IsDefined(body)
    \/ /\ IsDefined(Val(body).productIds)
       /\ Val(Val(body).productIds).type \notin {"array", "string"}

\* The list_products handler throws: category.toLowerCase() when the
\* category is given and is not a string.
ListThrows(category) == IsDefined(category) /\ Val(category).type # "string"

\* What the handler of a tool route sends: res.json({ tool, result }), or
\* 404 from the routes that look up an id and do not find it; when the
\* list_products or the create_quote handler throws, express answers 500.
ToolHandler(tool, param, body, category) ==
    IF tool \in {"check_stock", "get_price"} /\ Val(param) \notin ProductIds
    THEN NotFound("Product")
    ELSE IF tool = "get_customer" /\ Val(param) \notin CustomerIds
    THEN NotFound("Customer")
    ELSE IF tool = "create_quote" /\ QuoteThrows(body)
    THEN ServerError
    ELSE IF tool = "list_products" /\ ListThrows(category)
    THEN ServerError
    ELSE ToolResult(tool)

\* next(): express runs the tool handler of the route, which reads req and
\* answers with a tool result unless a response was already sent.
CallNext(q) ==
    [q EXCEPT !.nextCalls = @ + 1,
              !.handlerRuns = @ + 1,
              !.handlerUser = q.user,
              !.res = IF @.status = 0 THEN ToolHandler(q.tool, q.param, q.body, q.category) ELSE @]

\* res.status(401).json({ error: msg })
Send401(q, msg) ==
    [q EXCEPT !.res = [status |-> 401, body |-> msg], !.sent = @ + 1]

Log(q, msg) == [q EXCEPT !.logged = msg]

Return(q) == [q EXCEPT !.pc = "done"]

\* Variant: only an absent header counts as missing
MissingBearer_OnlyAbsent(authHeader) ==
    \/ ~IsDefined(authHeader)
    \/ Val(authHeader) = ""
    \/ ~IsDefined(SplitSecond(Val(authHeader)))

\* !authHeader || !authHeader.startsWith('Bearer ')
MissingBearer(authHeader) ==
    \/ ~IsDefined(authHeader)
    \/ Val(authHeader) = ""
    \/ ~StartsWith(Val(authHeader), "Bearer ")

\* authHeader.split(' ')[1]
ExtractToken(authHeader) == Val(SplitSecond(Val(authHeader)))

\* Variant: the demo token compared for equality instead of by prefix
IsDemoToken_Exact(token) == token = "demo-token"

\* token.startsWith('demo-token')
IsDemoToken(token) == StartsWith(token, "demo-token")

\* Variant: the bypass keyed on "not production" instead of "development"
OnMissingHeader_NotProduction(q, nodeEnv) ==
    IF nodeEnv # Some("production")
    THEN Return(CallNext(Log(q, "[MCP] Demo mode - skipping token validation")))
    ELSE Return(Send401(q, "Missing authorization header"))

\* Variant: the runtime mode compared with 'dev'
OnMissingHeader_DevTypo(q, nodeEnv) ==
    IF nodeEnv = Some("dev")
    THEN Return(CallNext(Log(q, "[MCP] Demo mode - skipping token validation")))
    ELSE Return(Send401(q, "Missing authorization header"))

\* Variant: the bypass taken in every runtime mode
OnMissingHeader_AdmitAlways(q, nodeEnv) ==
    Return(CallNext(Log(q, "[MCP] Demo mode - skipping token validation")))

\* the branch taken without a Bearer header
OnMissingHeader(q, nodeEnv) ==
    IF nodeEnv = Some("development")
    THEN Return(CallNext(Log(q, "[MCP] Demo mode - skipping token validation")))
    ELSE Return(Send401(q, "Missing authorization header"))

\* Variant: the demo token branch attaches a demo identity
OnDemoToken_DemoUser(q) ==
    Return(CallNext([Log(q, "[MCP] Demo token accepted")
                        EXCEPT !.user = Some([sub |-> "demo-user", iss |-> "", aud |-> ""])]))

\* the demo token branch
OnDemoToken(q) == Return(CallNext(Log(q, "[MCP] Demo token accepted")))

\* Variant: the branch for a null jwks logs and returns without next()
OnNoJwks_LogOnly(q) == Return(Log(q, "[MCP] No JWKS configured, accepting token"))

\* Variant: fail closed when jwks is null
OnNoJwks_Reject(q) ==
    Return(Send401(Log(q, "[MCP] No JWKS configured"), "Invalid token"))

\* the branch taken when jwks is null
OnNoJwks(q) == Return(CallNext(Log(q, "[MCP] No JWKS configured, accepting token")))

\* Variant: the audience option left out
VerifyOptions_NoAudience(issuer, audience) == [issuer |-> issuer, audience |-> ""]

\* the options object handed to jwtVerify
VerifyOptions(issuer, audience) == [issuer |-> issuer, audience |-> audience]

\* await jwtVerify(token, jwks, ..): the call is made and the function suspends
CallJwtVerify(q, token) ==
    [q EXCEPT !.token = Some(token), !.verifyCalls = @ + 1, !.pc = "await"]

\* Variant: next() called before the payload is attached
OnVerified_NextBeforeUser(q, payload) ==
    Return([CallNext(Log(q, "[MCP] Token validated: " \o payload.sub))
               EXCEPT !.user = Some(payload)])

\* the statements after the await when jwtVerify resolved
OnVerified(q, payload) ==
    Return(CallNext([Log(q, "[MCP] Token validated: " \o payload.sub)
                        EXCEPT !.user = Some(payload)]))

\* Variant: the catch block logs the error and throws it again
OnVerifyError_Rethrow(q, error) ==
    Return([Log(q, "[MCP] Token validation failed: " \o error) EXCEPT !.threw = TRUE])

\* Variant: the catch block answers 401 without returning before next()
OnVerifyError_AlsoNext(q, error) ==
    Return(CallNext(Send401(Log(q, "[MCP] Token validation failed: " \o error),
                            "Invalid token")))

\* Variant: the catch block logs and lets the request through
OnVerifyError_FailOpen(q, error) ==
    Return(CallNext(Log(q, "[MCP] Token validation failed: " \o error)))

\* Variant: the catch block reports the error of jwtVerify to the caller
OnVerifyError_LeakError(q, error) ==
    Return(Send401(Log(q, "[MCP] Token validation failed: " \o error),
                   "Invalid token: " \o error))

\* the catch block
OnVerifyError(q, error) ==
    Return(Send401(Log(q, "[MCP] Token validation failed: " \o error), "Invalid token"))

\* Variant: the demo prefix is honoured in development only
validateToken_DemoInDevOnly(q, authHeader, nodeEnv, keySet) ==
    LET req == [q EXCEPT !.authorization = authHeader] IN
    IF MissingBearer(authHeader) THEN OnMissingHeader(req, nodeEnv)
    ELSE LET token == ExtractToken(authHeader) IN
         IF IsDemoToken(token) /\ nodeEnv = Some("development") THEN OnDemoToken(req)
         ELSE IF ~IsDefined(keySet) THEN OnNoJwks(req)
         ELSE CallJwtVerify(req, token)

\* validateToken(req, res, next) up to its first await or its return
validateToken(q, authHeader, nodeEnv, keySet) ==
    LET req == [q EXCEPT !.authorization = authHeader] IN
    IF MissingBearer(authHeader) THEN OnMissingHeader(req, nodeEnv)
    ELSE LET token == ExtractToken(authHeader) IN
         IF IsDemoToken(token) THEN OnDemoToken(req)
         ELSE IF ~IsDefined(keySet) THEN OnNoJwks(req)
         ELSE CallJwtVerify(req, token)

---------------------------------------------------------------------------
(* Actions *)

\* The node process runs until an error escapes an async handler: an
\* unhandled promise rejection ends it.
ProcessAlive == \A r \in Requests : ~reqs[r].threw

\* The resolver looks at its cache when jwtVerify asks it for the key: a
\* call made while the cache is empty waits for a fetch of the key set.
NoteCache(q, cached) ==
    IF q.pc = "await" THEN [q EXCEPT !.coldCall = ~cached] ELSE q

\* Request r arrives at /mcp/tools/list_products, without a category or with
\* a repeated one, and express calls validateToken.
\* Requests are numbered in their order of arrival.
Arrive(r, headers) ==
    /\ ProcessAlive
    /\ reqs[r].pc = "idle"
    /\ \A earlier \in 1..(r - 1) : reqs[earlier].pc # "idle"
    /\ \E authHeader \in headers, category \in {Undefined, Some([type |-> "array"])} :
          reqs' = [reqs EXCEPT ![r] =
                      NoteCache(validateToken([@ EXCEPT !.category = category],
                                              authHeader, env.NODE_ENV, jwks), keysCached)]
    /\ UNCHANGED <<env, OKTA_ISSUER, OKTA_AUDIENCE, jwks, keysCached, clientVars>>

ValidateToken(r) == Arrive(r, AuthHeaders)

\* Variant: the route is registered without validateToken, as /health is
ExpressRoute_Unprotected(q, authHeader, nodeEnv, keySet) ==
    Return(CallNext([q EXCEPT !.authorization = authHeader]))

\* app.get(path, validateToken, handler): express calls validateToken with
\* the handler as next
ExpressRoute(q, authHeader, nodeEnv, keySet) == validateToken(q, authHeader, nodeEnv, keySet)

\* The Authorization headers sent to the tool routes
ToolHeaders ==
    { Undefined, Some("Bearer demo-token"),
      Some("Bearer eyJ.ok.sig"), Some("Bearer eyJ.forged.sig"), Some("Bearer eyJ.iss.sig") }

\* Request r arrives at one of the tool routes, for an id or without one
ToolRequest(r) ==
    /\ ProcessAlive
    /\ r <= MaxToolReq
    /\ reqs[r].pc = "idle"
    /\ \A earlier \in 1..(r - 1) : reqs[earlier].pc # "idle"
    /\ \E call \in ToolCalls, authHeader \in ToolHeaders :
          reqs' = [reqs EXCEPT ![r] =
                      NoteCache(ExpressRoute([@ EXCEPT !.tool = call.tool, !.param = call.param,
                                                       !.body = call.body, !.category = call.category],
                                             authHeader, env.NODE_ENV, jwks),
                                keysCached)]
    /\ UNCHANGED <<env, OKTA_ISSUER, OKTA_AUDIENCE, jwks, keysCached, clientVars>>

\* Variant: token is a variable of the module, which the latest request in
\* validateToken has overwritten when jwtVerify reads it
Verdict_SharedToken(r, netOk) ==
    LET latest == CHOOSE q \in Requests :
                      /\ reqs[q].pc = "await"
                      /\ \A o \in Requests : reqs[o].pc = "await" => o <= q
    IN  jwtVerify(Val(reqs[latest].token), GetKeys(keysCached, netOk, Val(reqs[latest].token)),
                  VerifyOptions(OKTA_ISSUER, OKTA_AUDIENCE))

\* Variant: a token is accepted once; presented again after it was admitted
\* it is refused as a replay
Verdict_RejectsReplay(r, netOk) ==
    IF \E o \in Requests \ {r} :
          /\ reqs[o].pc = "done" /\ IsDefined(reqs[o].user)
          /\ reqs[o].token = reqs[r].token
    THEN Thrown("JWTReplayed")
    ELSE jwtVerify(Val(reqs[r].token), GetKeys(keysCached, netOk, Val(reqs[r].token)),
                   VerifyOptions(OKTA_ISSUER, OKTA_AUDIENCE))

\* What the pending jwtVerify of request r settles to when the network
\* does (netOk) or does not answer a key set fetch.
Verdict(r, netOk) ==
    jwtVerify(Val(reqs[r].token), GetKeys(keysCached, netOk, Val(reqs[r].token)),
              VerifyOptions(OKTA_ISSUER, OKTA_AUDIENCE))

\* The resolver holds a fresh key set after the call when it held one
\* before (a failed refetch leaves it) or a fetch for a parsable token
\* succeeded.
CacheAfter(r, netOk) == keysCached \/ (WellFormed(Val(reqs[r].token)) /\ netOk)

\* What the network can do to the call of request r: a fetch is made, and
\* can fail, when there is no fresh key set or the token's key is not in it.
NetOutcomes(r) ==
    IF keysCached /\ ~UnknownKey(Val(reqs[r].token)) THEN {TRUE} ELSE BOOLEAN

\* Variant: a verification completes only while no other request is in
\* jwtVerify (each waits for the key set fetch of the other)
TokenValidated_AfterOthers(r) ==
    /\ ProcessAlive
    /\ reqs[r].pc = "await"
    /\ \A other \in Requests \ {r} : reqs[other].pc # "await"
    /\ \E netOk \in NetOutcomes(r) :
          /\ Verdict(r, netOk).ok
          /\ reqs' = [reqs EXCEPT ![r] = OnVerified(@, Val(Verdict(r, netOk).payload))]
          /\ keysCached' = CacheAfter(r, netOk)
    /\ UNCHANGED <<env, OKTA_ISSUER, OKTA_AUDIENCE, jwks, clientVars>>

\* jwtVerify of request r resolves and validateToken runs to its end.
TokenValidated(r) ==
    /\ ProcessAlive
    /\ reqs[r].pc = "await"
    /\ \E netOk \in NetOutcomes(r) :
          /\ Verdict(r, netOk).ok
          /\ reqs' = [reqs EXCEPT ![r] = OnVerified(@, Val(Verdict(r, netOk).payload))]
          /\ keysCached' = CacheAfter(r, netOk)
    /\ UNCHANGED <<env, OKTA_ISSUER, OKTA_AUDIENCE, jwks, clientVars>>

\* jwtVerify of request r throws and the catch block runs.
TokenValidationFailed(r) ==
    /\ ProcessAlive
    /\ reqs[r].pc = "await"
    /\ \E netOk \in NetOutcomes(r) :
          /\ ~Verdict(r, netOk).ok
          /\ reqs' = [reqs EXCEPT ![r] = OnVerifyError(@, Verdict(r, netOk).error)]
          /\ keysCached' = CacheAfter(r, netOk)
    /\ UNCHANGED <<env, OKTA_ISSUER, OKTA_AUDIENCE, jwks, clientVars>>

\* The cached key set reaches the resolver's cache age: the next call that
\* needs a key fetches the key set again.
KeySetExpires ==
    /\ ProcessAlive
    /\ keysCached
    /\ keysCached' = FALSE
    /\ UNCHANGED <<env, OKTA_ISSUER, OKTA_AUDIENCE, jwks, reqs, clientVars>>

Next ==
    \/ KeySetExpires
    \/ \E r \in Requests :
        \/ ValidateToken(r)
        \/ TokenValidated(r)
        \/ TokenValidationFailed(r)

Spec == Init /\ [][Next]_vars

\* A pending jwtVerify settles: the key set fetch answers or times out, and
\* the event loop then runs the rest of validateToken.
Settles(r) == TokenValidated(r) \/ TokenValidationFailed(r)

\* The server under clients that race for the key set: an issuer and an
\* audience are configured and the requests carry tokens.
RaceHeaders ==
    { Undefined, Some("Bearer demo-token"),
      Some("Bearer eyJ.ok.sig"), Some("Bearer eyJ.forged.sig"), Some("Bearer eyJ.exp.sig") }

RaceInit ==
    /\ Init
    /\ env.OKTA_ISSUER = Some(IssuerUrl)
    /\ env.OKTA_CUSTOM_AUTH_SERVER_AUDIENCE = Some(SalesAud)
    /\ env.NODE_ENV = Some("production")

ValidateTokenInRace(r) == Arrive(r, RaceHeaders)

RaceNext ==
    \/ KeySetExpires
    \/ \E r \in Requests :
        \/ ValidateTokenInRace(r)
        \/ TokenValidated(r)
        \/ TokenValidationFailed(r)

\* The server under clients of all its tool routes
ToolInit ==
    /\ Init
    /\ env.NODE_ENV # Undefined
    /\ env.OKTA_CUSTOM_AUTH_SERVER_AUDIENCE = Some(SalesAud)

ToolNext ==
    \/ KeySetExpires
    \/ \E r \in Requests :
        \/ ToolRequest(r)
        \/ TokenValidated(r)
        \/ TokenValidationFailed(r)

ToolSpec == ToolInit /\ [][ToolNext]_vars

FairSpec == RaceInit /\ [][RaceNext]_vars /\ \A r \in Requests : WF_vars(Settles(r))

---------------------------------------------------------------------------
(* Vocabulary of the properties, stated on the requests as the clients    *)
(* sent them and on the configuration the process was started with.       *)

Bearer(t) == Some("Bearer " \o t)

Arrived(r)  == reqs[r].pc # "idle"
Decided(r)  == reqs[r].pc = "done"
Admitted(r) == reqs[r].nextCalls > 0
Got401(r)   == reqs[r].res.status = 401

NoHeader(r)   == Arrived(r) /\ reqs[r].authorization = Undefined
HasBearer(r)  == /\ IsDefined(reqs[r].authorization)
                 /\ StartsWith(Val(reqs[r].authorization), "Bearer ")
HasDemoPrefix(r) == /\ IsDefined(reqs[r].authorization)
                    /\ StartsWith(Val(reqs[r].authorization), "Bearer demo-token")

Development    == env.NODE_ENV = Some("development")
IssuerSet      == env.OKTA_ISSUER \notin {Undefined, Some("")}
AudienceSet    == env.OKTA_CUSTOM_AUTH_SERVER_AUDIENCE \notin {Undefined, Some("")}
ConfiguredIssuer   == IF IssuerSet THEN Val(env.OKTA_ISSUER) ELSE ""
ConfiguredAudience == IF AudienceSet THEN Val(env.OKTA_CUSTOM_AUTH_SERVER_AUDIENCE) ELSE ""

\* Request r presents a JWS with the given properties
Presents(r, P(_)) == \E t \in DOMAIN JwtTable : reqs[r].authorization = Bearer(t) /\ P(JwtTable[t])

SignedOk(jwt)    == jwt.key \in RemoteKeys
SignedBadly(jwt) == jwt.key \notin RemoteKeys
IssuerOk(jwt)    == jwt.iss = ConfiguredIssuer
AudienceOk(jwt)  == jwt.aud = ConfiguredAudience
Unexpired(jwt)   == ~jwt.expired

FailureLog(e) == "[MCP] Token validation failed: " \o e
VerifyFailed(r) == Decided(r) /\ StartsWith(reqs[r].logged, "[MCP] Token validation failed")
FetchFailed(r)  == reqs[r].logged = FailureLog("JWKSFetchFailed")

Pending(r) == reqs[r].pc = "await"
NextToArrive(r) == reqs[r].pc = "idle" /\ \A earlier \in 1..(r - 1) : Arrived(earlier)

\* The decision the gate is to reach for a header under the configuration
\* of the process, given whether the key set could be obtained for it.
ExpectedDecision(h, keysFailed) ==
    IF ~IsDefined(h) \/ ~StartsWith(Val(h), "Bearer ")
    THEN IF Development THEN "admit without claims" ELSE "reject missing"
    ELSE IF StartsWith(Val(h), "Bearer demo-token") THEN "admit without claims"
    ELSE IF ~IssuerSet THEN "admit without claims"
    ELSE IF /\ ~keysFailed
            /\ \E t \in DOMAIN JwtTable :
                  /\ h = Bearer(t)
                  /\ SignedOk(JwtTable[t]) /\ IssuerOk(JwtTable[t]) /\ Unexpired(JwtTable[t])
                  /\ AudienceSet => AudienceOk(JwtTable[t])
         THEN "admit with claims"
         ELSE "reject invalid"

\* The decision the gate reached for request r, read from req and res
ActualDecision(r) ==
    IF reqs[r].threw THEN "crash"
    ELSE IF reqs[r].sent + reqs[r].nextCalls # 1 THEN "none or several"
    ELSE IF reqs[r].res = [status |-> 401, body |-> "Missing authorization header"]
         THEN "reject missing"
    ELSE IF reqs[r].res = [status |-> 401, body |-> "Invalid token"] THEN "reject invalid"
    ELSE IF Got401(r) THEN "reject other"
    ELSE IF IsDefined(reqs[r].handlerUser) THEN "admit with claims"
    ELSE "admit without claims"

DecidedNormally(r) ==
    ActualDecision(r) = ExpectedDecision(reqs[r].authorization, FetchFailed(r))

---------------------------------------------------------------------------
\* C1: a request that validateToken answered with 401 never had next()
\* called for it: no tool handler ran and none saw the request.
C1_RejectedNotForwarded ==
    \A r \in Requests :
        (reqs[r].sent > 0 \/ Got401(r)) =>
            /\ reqs[r].nextCalls = 0
            /\ reqs[r].handlerRuns = 0
            /\ reqs[r].res.status = 401

C1_Witness ==
    \E r1, r2 \in Requests :
        /\ Decided(r1) /\ Got401(r1) /\ reqs[r1].res.body = "Invalid token"
        /\ Decided(r2) /\ Got401(r2) /\ reqs[r2].res.body = "Missing authorization header"

\* C2 as stated: a well-formed, badly signed bearer token is answered 401
\* and never admitted, whatever the runtime mode and issuer configuration.
C2_ForgedRejectedEverywhere ==
    \A r \in Requests :
        Presents(r, SignedBadly) =>
            /\ ~Admitted(r)
            /\ Decided(r) => Got401(r)

\* C2 amended: a well-formed, badly signed bearer token is answered 401 and
\* never admitted, in every runtime mode, whenever an issuer is configured.
C2_ForgedRejectedWhenIssuerSet ==
    \A r \in Requests :
        (IssuerSet /\ Presents(r, SignedBadly)) =>
            /\ ~Admitted(r)
            /\ Decided(r) => Got401(r)

C2_Witness ==
    \E r \in Requests :
        /\ IssuerSet /\ Development
        /\ Presents(r, SignedBadly) /\ Decided(r) /\ Got401(r)
        /\ reqs[r].logged = FailureLog("JWSSignatureVerificationFailed")

\* The three admitting cases of C3 as stated
C3_CaseAnonymous(r) == NoHeader(r) /\ Development
C3_CaseDemo(r)      == HasDemoPrefix(r)
C3_CaseVerified(r)  ==
    /\ IssuerSet
    /\ Presents(r, LAMBDA jwt : SignedOk(jwt) /\ IssuerOk(jwt) /\ AudienceOk(jwt))
C3_Stated(r) == C3_CaseAnonymous(r) \/ C3_CaseDemo(r) \/ C3_CaseVerified(r)

C3_CaseNoBearer(r) == Arrived(r) /\ ~HasBearer(r) /\ Development
C3_CaseVerifiedAmended(r) ==
    /\ IssuerSet
    /\ Presents(r, LAMBDA jwt : SignedOk(jwt) /\ IssuerOk(jwt)
                                 /\ (AudienceSet => AudienceOk(jwt)))
C3_CaseNoKeySet(r) == HasBearer(r) /\ ~IssuerSet
C3_Amended(r) ==
    C3_CaseNoBearer(r) \/ C3_CaseDemo(r) \/ C3_CaseVerifiedAmended(r) \/ C3_CaseNoKeySet(r)

C4_AdmittedWithClaims(r) ==
    /\ reqs[r].nextCalls = 1
    /\ reqs[r].sent = 0
    /\ ~Got401(r)
    /\ IsDefined(reqs[r].user)
    /\ reqs[r].handlerUser = reqs[r].user
    /\ Presents(r, LAMBDA jwt : Val(reqs[r].user).sub = jwt.sub)

\* C4 as stated: with a key set configured, a correctly signed token with
\* matching issuer and audience is admitted with its claims attached.
C4_SignedTokenAdmitted ==
    \A r \in Requests :
        ( /\ Decided(r) /\ IssuerSet /\ ~HasDemoPrefix(r)
          /\ Presents(r, LAMBDA jwt : SignedOk(jwt) /\ IssuerOk(jwt) /\ AudienceOk(jwt)) )
        => C4_AdmittedWithClaims(r)

\* C4 amended: with a key set configured, a correctly signed and unexpired
\* token with matching issuer and audience, for which the key set was
\* obtained, is admitted with its claims attached before the handler runs.
C4_ValidTokenAdmitted ==
    \A r \in Requests :
        ( /\ Decided(r) /\ IssuerSet /\ ~HasDemoPrefix(r) /\ ~FetchFailed(r)
          /\ Presents(r, LAMBDA jwt : /\ SignedOk(jwt) /\ IssuerOk(jwt)
                                      /\ AudienceOk(jwt) /\ Unexpired(jwt)) )
        => C4_AdmittedWithClaims(r)

C4_Witness ==
    \E r \in Requests :
        /\ Decided(r) /\ IssuerSet /\ AudienceSet
        /\ reqs[r].authorization = Bearer("eyJ.ok.sig")
        /\ reqs[r].handlerRuns = 1
        /\ reqs[r].handlerUser = Some([sub |-> "00u-sarah", iss |-> IssuerUrl, aud |-> SalesAud])

\* C5: with an issuer and an audience configured, a correctly signed token
\* of that issuer whose audience differs from the configured one is answered
\* 401 and the tool handler does not run.
C5_WrongAudienceRejected ==
    \A r \in Requests :
        ( /\ IssuerSet /\ AudienceSet
          /\ Presents(r, LAMBDA jwt : SignedOk(jwt) /\ IssuerOk(jwt) /\ ~AudienceOk(jwt)) )
        => /\ ~Admitted(r)
           /\ reqs[r].handlerRuns = 0
           /\ Decided(r) => Got401(r)

C5_Witness ==
    \E r \in Requests :
        /\ IssuerSet /\ AudienceSet /\ Decided(r) /\ Got401(r)
        /\ reqs[r].authorization = Bearer("eyJ.aud.sig")
        /\ reqs[r].logged = FailureLog("JWTClaimValidationFailed aud")

\* C6: with no issuer configured every request with a bearer token, garbage
\* included, is admitted at once and gets no 401, in every runtime mode.
C6_NoIssuerAdmitsAll ==
    \A r \in Requests :
        (~IssuerSet /\ HasBearer(r)) =>
            /\ Decided(r)
            /\ reqs[r].nextCalls = 1
            /\ reqs[r].sent = 0
            /\ ~Got401(r)

C6_Witness ==
    \E r1, r2 \in Requests :
        /\ ~IssuerSet /\ ~Development
        /\ reqs[r1].authorization = Bearer("not-a-jwt") /\ Admitted(r1)
        /\ reqs[r2].authorization = Bearer("eyJ.forged.sig") /\ Admitted(r2)

\* C7: a bearer token starting with demo-token is admitted in every
\* configuration and is never handed to jwtVerify.
C7_DemoTokenAdmitted ==
    \A r \in Requests :
        HasDemoPrefix(r) =>
            /\ Decided(r)
            /\ reqs[r].nextCalls = 1
            /\ reqs[r].sent = 0
            /\ ~Got401(r)
            /\ reqs[r].verifyCalls = 0

C7_Witness ==
    \E r1, r2 \in Requests :
        /\ IssuerSet /\ ~Development
        /\ reqs[r1].authorization = Bearer("demo-token") /\ Admitted(r1)
        /\ reqs[r2].authorization = Bearer("demo-token-123 x") /\ Admitted(r2)

\* C8: outside development mode a request without Authorization header is
\* answered 401 {error: 'Missing authorization header'} and next() is not
\* called, whether or not an issuer is configured.
C8_MissingHeaderRejected ==
    \A r \in Requests :
        (NoHeader(r) /\ ~Development) =>
            /\ Decided(r)
            /\ reqs[r].res = [status |-> 401, body |-> "Missing authorization header"]
            /\ reqs[r].nextCalls = 0

C8_Witness ==
    \E r \in Requests :
        /\ NoHeader(r) /\ env.NODE_ENV = Undefined /\ IssuerSet /\ Got401(r)

\* C9: in development mode a request without Authorization header is
\* admitted, with req.user unset and without jwtVerify being called.
C9_MissingHeaderAdmittedInDev ==
    \A r \in Requests :
        (NoHeader(r) /\ Development) =>
            /\ Decided(r)
            /\ reqs[r].nextCalls = 1
            /\ reqs[r].sent = 0
            /\ ~Got401(r)
            /\ reqs[r].user = Undefined
            /\ reqs[r].handlerUser = Undefined
            /\ reqs[r].verifyCalls = 0

C9_Witness ==
    \E r \in Requests :
        /\ NoHeader(r) /\ Development /\ IssuerSet
        /\ reqs[r].handlerRuns = 1 /\ ~keysCached

---------------------------------------------------------------------------
\* C11: a request whose key set fetch failed got 401 {error: 'Invalid
\* token'} after a single jwtVerify call, no error escaped and the process
\* runs on: every other request is still accepted, settled, and decided as
\* its own header and the configuration demand -- before and after the failure.
C11_AfterFetchFailure(r) ==
    /\ reqs[r].res = [status |-> 401, body |-> "Invalid token"]
    /\ reqs[r].nextCalls = 0
    /\ reqs[r].verifyCalls = 1
    /\ ~reqs[r].threw
    /\ ProcessAlive
    /\ \A other \in Requests \ {r} :
          /\ Decided(other) => DecidedNormally(other)
          /\ NextToArrive(other) => ENABLED ValidateToken(other)
          /\ Pending(other) => ENABLED (TokenValidated(other) \/ TokenValidationFailed(other))

C11_FetchFailureIsLocal ==
    /\ [](\A r \in Requests : FetchFailed(r) => C11_AfterFetchFailure(r))
    /\ [][\A r, other \in Requests :
            (FetchFailed(r) /\ ~Decided(other) /\ Decided(other)') => DecidedNormally(other)']_vars

C11_Witness ==
    \E r1, r2 \in Requests :
        /\ FetchFailed(r1) /\ Got401(r1)
        /\ r2 > r1 /\ Decided(r2) /\ ActualDecision(r2) = "admit with claims"
        /\ reqs[r2].authorization = Bearer("eyJ.ok.sig")

---------------------------------------------------------------------------
\* Request r presents a token that verifies under the configuration
PresentsValid(r) ==
    /\ IssuerSet
    /\ Presents(r, LAMBDA jwt : /\ SignedOk(jwt) /\ IssuerOk(jwt) /\ Unexpired(jwt)
                                /\ AudienceSet => AudienceOk(jwt))

\* Two requests with valid tokens wait in jwtVerify while no key set is cached
ColdRace(r1, r2) ==
    /\ r1 # r2
    /\ Pending(r1) /\ PresentsValid(r1) /\ reqs[r1].coldCall
    /\ Pending(r2) /\ PresentsValid(r2) /\ reqs[r2].coldCall
    /\ ~keysCached

\* C12 as stated: two concurrent first requests with valid tokens against a
\* cold key set cache are both eventually admitted.
C12_ColdRaceBothAdmitted ==
    \A r1, r2 \in Requests :
        ColdRace(r1, r2) ~> (Admitted(r1) /\ Admitted(r2))

\* C12 amended: two concurrent first requests with valid tokens against a
\* cold key set cache are both eventually decided, neither waiting for the
\* other; each is admitted unless its own key set fetch failed, and the race
\* lets no error escape.
C12_ColdRaceBothDecided ==
    /\ \A r1, r2 \in Requests :
          ColdRace(r1, r2) ~> (Decided(r1) /\ Decided(r2))
    /\ [](\A r1, r2 \in Requests :
            ColdRace(r1, r2) => ENABLED TokenValidated(r1) /\ ENABLED TokenValidated(r2))
    /\ [](\A r \in Requests :
            (Decided(r) /\ PresentsValid(r)) =>
                /\ ~reqs[r].threw
                /\ ActualDecision(r) =
                     IF FetchFailed(r) THEN "reject invalid" ELSE "admit with claims")

C12_Witness ==
    \E r1, r2 \in Requests :
        /\ r1 # r2
        /\ PresentsValid(r1) /\ reqs[r1].coldCall /\ ActualDecision(r1) = "admit with claims"
        /\ PresentsValid(r2) /\ reqs[r2].coldCall /\ ActualDecision(r2) = "admit with claims"

---------------------------------------------------------------------------
\* Two decided requests that presented the same valid token
SameValidToken(r1, r2) ==
    /\ r1 # r2
    /\ Decided(r1) /\ Decided(r2)
    /\ reqs[r2].authorization = reqs[r1].authorization
    /\ PresentsValid(r1)

\* C13 as stated: the same valid token, presented repeatedly among other
\* requests, gets the same decision every time (tokens do not expire and
\* keys do not rotate during a run).
C13_SameTokenSameDecision ==
    \A r1, r2 \in Requests :
        SameValidToken(r1, r2) => ActualDecision(r1) = ActualDecision(r2)

\* C13 amended: the same valid token gets the same decision, admitted with
\* the same claims, on every call for which the key set was available; a
\* call whose key set fetch failed is rejected with 401 'Invalid token' and
\* its handler does not run; a valid token gets no third decision.
C13_SameTokenSameDecisionWithKeys ==
    /\ \A r1, r2 \in Requests :
          (SameValidToken(r1, r2) /\ ~FetchFailed(r1) /\ ~FetchFailed(r2)) =>
              /\ ActualDecision(r1) = "admit with claims"
              /\ ActualDecision(r2) = "admit with claims"
              /\ reqs[r1].user = reqs[r2].user
    /\ \A r \in Requests :
          (Decided(r) /\ PresentsValid(r) /\ FetchFailed(r)) =>
              /\ ActualDecision(r) = "reject invalid"
              /\ reqs[r].res = [status |-> 401, body |-> "Invalid token"]
              /\ reqs[r].handlerRuns = 0
    /\ \A r \in Requests :
          (Decided(r) /\ PresentsValid(r)) =>
              ActualDecision(r) \in {"admit with claims", "reject invalid"}

C13_Witness ==
    \E r1, r2 \in Requests :
        /\ SameValidToken(r1, r2)
        /\ reqs[r1].coldCall /\ ~reqs[r2].coldCall
        /\ ActualDecision(r1) = "admit with claims"
        /\ ActualDecision(r2) = "admit with claims"

---------------------------------------------------------------------------
\* Request r2 arrived after r1, went through jwtVerify and was decided
\* while r1 was still waiting in its own jwtVerify
Overtook(r2, r1) ==
    /\ r1 < r2
    /\ Pending(r1)
    /\ Decided(r2) /\ reqs[r2].verifyCalls = 1

\* C14: requests are validated independently.  Whatever the interleaving,
\* every decided request got the decision its own header demands under the
\* configuration and the key set available to it; a request waiting in
\* jwtVerify can always be settled and the next request can always enter
\* validateToken, whatever the other requests are doing; and a step of one
\* request leaves the req and res of all the others as they were.
C14_ValidatedIndependently ==
    /\ [](\A r \in Requests :
            /\ Decided(r) => DecidedNormally(r)
            /\ Pending(r) => ENABLED Settles(r)
            /\ NextToArrive(r) => ENABLED ValidateToken(r))
    /\ [][\A r, other \in Requests :
            (r # other /\ reqs'[r] # reqs[r]) => reqs'[other] = reqs[other]]_vars

C14_Witness ==
    \E r1, r2 \in Requests :
        /\ Overtook(r2, r1)
        /\ PresentsValid(r1)
        /\ reqs[r2].authorization # reqs[r1].authorization
        /\ ActualDecision(r2) = "reject invalid"
        /\ DecidedNormally(r2)

---------------------------------------------------------------------------
NoneArrived == \A r \in Requests : ~Arrived(r)

\* C15 as stated: the resolver is established on the first use of the gate,
\* so before any request has arrived there is none.
C15_ResolverEstablishedOnFirstUse == NoneArrived => jwks = Undefined

\* C15 amended: the resolver bound to <issuer>/v1/keys exists from module
\* load on, before any request, when an issuer is configured; no step of a
\* validation replaces it or writes the configuration; what is lazy is the
\* fetch of the key set, cached only after a jwtVerify call.
C15_ResolverSetAtLoadAndReused ==
    /\ [](jwks = IF IssuerSet
                   THEN Some([url |-> ConfiguredIssuer \o "/v1/keys"])
                   ELSE Undefined)
    /\ [](keysCached => \E r \in Requests : Decided(r) /\ reqs[r].verifyCalls = 1)
    /\ [][/\ jwks' = jwks
           /\ OKTA_ISSUER' = OKTA_ISSUER
           /\ OKTA_AUDIENCE' = OKTA_AUDIENCE
           /\ env' = env]_vars

C15_Witness ==
    /\ jwks = Some([url |-> IssuerUrl \o "/v1/keys"])
    /\ keysCached
    /\ \E r1, r2 \in Requests :
          /\ r1 # r2
          /\ Decided(r1) /\ reqs[r1].verifyCalls = 1
          /\ Decided(r2) /\ reqs[r2].verifyCalls = 1

---------------------------------------------------------------------------
Admits == {"admit with claims", "admit without claims"}
GateErrors == {"Missing authorization header", "Invalid token"}
AsksForMissingId(r) == reqs[r].param \in {Some("PROD-999"), Some("CUST-999")}

\* C16: token validation happens before tool access.  On every tool route
\* the handler has run only for a decided request that validateToken
\* admitted, once, and that its header entitles to be admitted; a request
\* that is to be rejected got the 401 of the gate and no handler ran for it;
\* a tool result or a 404 is never the answer to a request the gate did not
\* admit, whether the id asked for exists or not.
C16_ValidatedBeforeToolAccess ==
    \A r \in Requests :
        LET expected == ExpectedDecision(reqs[r].authorization, FetchFailed(r)) IN
        /\ reqs[r].tool \in ToolNames
        /\ reqs[r].handlerRuns > 0 =>
              /\ Decided(r) /\ reqs[r].handlerRuns = 1
              /\ reqs[r].nextCalls = 1 /\ reqs[r].sent = 0
              /\ expected \in Admits
              /\ reqs[r].res = ToolHandler(reqs[r].tool, reqs[r].param, reqs[r].body, reqs[r].category)
        /\ (Decided(r) /\ expected \notin Admits) =>
              /\ reqs[r].handlerRuns = 0
              /\ Got401(r) /\ reqs[r].res.body \in GateErrors
        /\ reqs[r].res.status \in {200, 404, 500} => reqs[r].handlerRuns = 1
        /\ Pending(r) => reqs[r].handlerRuns = 0 /\ reqs[r].res = NoResponse

C16_Witness ==
    \E r \in Requests :
        /\ reqs[r].tool = "check_stock" /\ AsksForMissingId(r)
        /\ reqs[r].verifyCalls = 1
        /\ Got401(r) /\ reqs[r].handlerRuns = 0

---------------------------------------------------------------------------
\* Request r was admitted on one of the paths that verify nothing
AdmittedUnverified(r) ==
    /\ Decided(r) /\ Admitted(r)
    /\ \/ ~HasBearer(r)
       \/ HasDemoPrefix(r)
       \/ ~IssuerSet

---------------------------------------------------------------------------
(* TokenExchangeCard: the card that lists the token exchanges of a chat   *)
(* answer.  A TokenExchange is what the backend reports for one agent;    *)
(* the card is a function of its exchanges prop.                          *)

\* Longest list of exchanges shown
MaxExchanges == 2

\* The agents, in the order the backend reports them
Agents == <<"sales", "inventory", "customer", "pricing">>
AgentName(agent) == agent \o " agent"

\* The exchanges the backend may report for an agent: any combination of
\* the flags, with or without scopes, requested scopes and error text
TokenExchanges(agent) ==
    [ agent : {agent},
      agent_name : {AgentName(agent)},
      success : BOOLEAN,
      access_denied : BOOLEAN,
      scopes : {<<>>, <<agent \o ":read">>},
      requested_scopes : {Undefined, Some(<<>>), Some(<<agent \o ":read">>)},
      error : {Undefined, Some("Token exchange failed")},
      demo_mode : {FALSE} ]

\* A JavaScript string that may be undefined, used as a condition
Truthy(o) == IsDefined(o) /\ Val(o) # ""

\* exchange.success && !exchange.access_denied
IsGranted(e) == e.success /\ ~e.access_denied

PolicyMessage == "Blocked by Okta governance policy"

\* Variant: the error text is shown whenever there is one
ExchangeRow_ErrorAlways(e) ==
    [ name |-> e.agent_name,
      label |-> IF e.demo_mode THEN "Demo Mode" ELSE "ID-JAG Exchange",
      badge |-> IF IsGranted(e) THEN "Granted" ELSE "Denied",
      grantedScopes |-> IF IsGranted(e) /\ Len(e.scopes) > 0 THEN e.scopes ELSE <<>>,
      requestedScopes |->
          IF e.access_denied /\ IsDefined(e.requested_scopes) /\ Len(Val(e.requested_scopes)) > 0
          THEN Val(e.requested_scopes) ELSE <<>>,
      policyMessage |-> IF e.access_denied THEN Some(PolicyMessage) ELSE Undefined,
      errorMessage |-> IF Truthy(e.error) THEN e.error ELSE Undefined ]

\* What the card renders for one exchange of the list
ExchangeRow(e) ==
    [ name |-> e.agent_name,
      label |-> IF e.demo_mode THEN "Demo Mode" ELSE "ID-JAG Exchange",
      badge |-> IF IsGranted(e) THEN "Granted" ELSE "Denied",
      grantedScopes |-> IF IsGranted(e) /\ Len(e.scopes) > 0 THEN e.scopes ELSE <<>>,
      requestedScopes |->
          IF e.access_denied /\ IsDefined(e.requested_scopes) /\ Len(Val(e.requested_scopes)) > 0
          THEN Val(e.requested_scopes) ELSE <<>>,
      policyMessage |-> IF e.access_denied THEN Some(PolicyMessage) ELSE Undefined,
      errorMessage |-> IF Truthy(e.error) /\ ~e.access_denied THEN e.error ELSE Undefined ]

\* exchanges.filter(pred).length
CountWhere(exs, pred(_)) == Cardinality({i \in 1..Len(exs) : pred(exs[i])})

\* Variant: Denied counts every exchange that is not granted
TokenExchangeCard_DeniedIsNotGranted(exs) ==
    LET granted == CountWhere(exs, IsGranted)
        denied  == CountWhere(exs, LAMBDA e : ~IsGranted(e))
    IN  [ grantedCount |-> granted,
          deniedCount |-> IF denied > 0 THEN Some(denied) ELSE Undefined,
          rows |-> [i \in 1..Len(exs) |-> ExchangeRow(exs[i])],
          emptyNotice |-> Len(exs) = 0 ]

\* The card: the summary counts (the Denied count only shown when positive),
\* one row per exchange, or the empty notice
TokenExchangeCard(exs) ==
    LET granted == CountWhere(exs, IsGranted)
        denied  == CountWhere(exs, LAMBDA e : e.access_denied)
    IN  [ grantedCount |-> granted,
          deniedCount |-> IF denied > 0 THEN Some(denied) ELSE Undefined,
          rows |-> [i \in 1..Len(exs) |-> ExchangeRow(exs[i])],
          emptyNotice |-> Len(exs) = 0 ]

\* The backend reports the exchange of the next agent and the card renders
\* the longer list.
ExchangeReported ==
    /\ Len(exchanges) < MaxExchanges
    /\ \E e \in TokenExchanges(Agents[Len(exchanges) + 1]) :
          exchanges' = Append(exchanges, e)
    /\ UNCHANGED <<serverVars, session, issued, appVars>>

\* The page that shows the card, beside a server that receives no request
CardInit ==
    /\ Init
    /\ env = [ NODE_ENV |-> Some("production"),
               OKTA_ISSUER |-> Some(IssuerUrl),
               OKTA_CUSTOM_AUTH_SERVER_AUDIENCE |-> Some(SalesAud) ]

CardNext == ExchangeReported

CardSpec == CardInit /\ [][CardNext]_vars

Card == TokenExchangeCard(exchanges)

---------------------------------------------------------------------------
\* C19: an access-denied exchange is a normal result, not an error.  Every
\* exchange with access_denied is rendered as Denied with the policy notice
\* and the scopes it requested, and with no error text even when the
\* backend sent one; what a row shows depends on its own exchange only, so
\* an exchange that succeeded is rendered as Granted with its scopes, and
\* counted as granted, whatever the other exchanges of the list are.
C19_DeniedIsNotAnError ==
    /\ Len(Card.rows) = Len(exchanges)
    /\ \A i \in 1..Len(exchanges) :
          LET e == exchanges[i]  row == Card.rows[i] IN
          /\ e.access_denied =>
                /\ row.badge = "Denied"
                /\ row.policyMessage = Some(PolicyMessage)
                /\ row.requestedScopes =
                      IF IsDefined(e.requested_scopes) THEN Val(e.requested_scopes) ELSE <<>>
                /\ row.errorMessage = Undefined
                /\ row.grantedScopes = <<>>
          /\ (e.success /\ ~e.access_denied) =>
                /\ row.badge = "Granted"
                /\ row.grantedScopes = e.scopes
                /\ row.policyMessage = Undefined
          /\ row.name = AgentName(Agents[i])
    /\ Card.grantedCount =
          Cardinality({i \in 1..Len(exchanges) :
                          exchanges[i].success /\ ~exchanges[i].access_denied})

C19_Witness ==
    /\ Len(exchanges) = 2
    /\ exchanges[1].access_denied /\ IsDefined(exchanges[1].error)
    /\ exchanges[1].requested_scopes = Some(<<"sales:read">>)
    /\ Card.rows[1].badge = "Denied" /\ Card.rows[1].errorMessage = Undefined
    /\ exchanges[2].success /\ ~exchanges[2].access_denied
    /\ Card.rows[2].badge = "Granted"
    /\ Card.grantedCount = 1 /\ Card.deniedCount = Some(1)

---------------------------------------------------------------------------
(* The delegated token exchange, as the documentation describes it: a     *)
(* signed-in user, step 1 at the Org authorization server (ID token to    *)
(* ID-JAG), step 2 at the authorization server of one MCP (ID-JAG to a    *)
(* scoped access token, or access denied by its policy).                  *)

Servers == {"sales", "inventory", "customer", "pricing"}
Groups  == {"ProGear-Sales", "ProGear-Warehouse", "ProGear-Finance"}

\* The demo users and their group
DemoUsers ==
    { [name |-> "Sarah Sales",   group |-> "ProGear-Sales"],
      [name |-> "Mike Manager",  group |-> "ProGear-Warehouse"],
      [name |-> "Frank Finance", group |-> "ProGear-Finance"] }

\* The scopes defined on the authorization server of each MCP
ServerScopes ==
    [ sales     |-> {"sales:read", "sales:quote", "sales:order"},
      inventory |-> {"inventory:read", "inventory:write", "inventory:alert"},
      customer  |-> {"customer:read", "customer:lookup", "customer:history"},
      pricing   |-> {"pricing:read", "pricing:margin", "pricing:discount"} ]

ReadScope(server) == server \o ":read"
Audience(server)  == "api://progear-" \o server

\* Variant: the Sales read rule of the Inventory server was not added
PolicyRules_OneInventoryRule ==
    [ sales     |-> { [group |-> "ProGear-Sales", scopes |-> ServerScopes.sales] },
      inventory |-> { [group |-> "ProGear-Warehouse", scopes |-> ServerScopes.inventory] },
      customer  |-> { [group |-> "ProGear-Sales", scopes |-> ServerScopes.customer] },
      pricing   |-> { [group |-> "ProGear-Finance", scopes |-> ServerScopes.pricing],
                      [group |-> "ProGear-Sales", scopes |-> {"pricing:read"}] } ]

\* The policy rules of the four authorization servers
PolicyRules ==
    [ sales     |-> { [group |-> "ProGear-Sales", scopes |-> ServerScopes.sales] },
      inventory |-> { [group |-> "ProGear-Warehouse", scopes |-> ServerScopes.inventory],
                      [group |-> "ProGear-Sales", scopes |-> {"inventory:read"}] },
      customer  |-> { [group |-> "ProGear-Sales", scopes |-> ServerScopes.customer] },
      pricing   |-> { [group |-> "ProGear-Finance", scopes |-> ServerScopes.pricing],
                      [group |-> "ProGear-Sales", scopes |-> {"pricing:read"}] } ]

\* The access matrix of the documentation, by group
AccessMatrix ==
    [ g \in Groups |->
        IF g = "ProGear-Sales"
        THEN [sales |-> "Full", inventory |-> "Read", customer |-> "Full", pricing |-> "Full"]
        ELSE IF g = "ProGear-Warehouse"
        THEN [sales |-> "None", inventory |-> "Full", customer |-> "None", pricing |-> "None"]
        ELSE [sales |-> "None", inventory |-> "None", customer |-> "None", pricing |-> "Full"] ]

\* The access matrix of the architecture page, by user: a check or a cross
UserAccessMatrix ==
    [ u \in {"Sarah Sales", "Mike Manager", "Frank Finance"} |->
        IF u = "Sarah Sales"
        THEN [sales |-> TRUE, inventory |-> TRUE, customer |-> TRUE, pricing |-> TRUE]
        ELSE IF u = "Mike Manager"
        THEN [sales |-> FALSE, inventory |-> TRUE, customer |-> FALSE, pricing |-> FALSE]
        ELSE [sales |-> FALSE, inventory |-> FALSE, customer |-> FALSE, pricing |-> TRUE] ]

\* The AI agent (workload principal) that performs the exchanges
AgentId == "wlp-progear-sales-agent"
AgentDisplayName == "ProGear Sales Agent"

\* Okta checks whether the groups of the user allow the requested scopes:
\* a rule of the server names the group and covers every requested scope
PolicyAllows(group, server, requested) ==
    \E rule \in PolicyRules[server] : rule.group = group /\ requested \subseteq rule.scopes

\* The requests an agent may make at its server: some of the server's scopes
ScopeRequests(server) == (SUBSET ServerScopes[server]) \ {{}}

\* Step 1: the ID token of the user and the client assertion of the agent
\* buy an assertion "this agent, acting for this user"
DelegationAssertion(agent, user) == [agent |-> agent, user |-> user]

\* Step 2: the outcome of presenting the assertion at the server
ScopedAccess(idJag, server, requested) ==
    IF PolicyAllows(idJag.user.group, server, requested)
    THEN [ server |-> server, requested |-> requested, result |-> "token",
           token |-> Some([scp |-> requested, aud |-> Audience(server)]) ]
    ELSE [ server |-> server, requested |-> requested, result |-> "access_denied",
           token |-> Undefined ]

\* What an entry of the system log carries of the fields that interface
\* OktaLog leaves optional, or that may be empty: the name of the actor,
\* user_on_behalf_of, and id_jag with or without its subject.
LogShapes ==
    { [actorNamed |-> TRUE,  onBehalfOf |-> TRUE,  idJag |-> "with subject"],
      [actorNamed |-> TRUE,  onBehalfOf |-> TRUE,  idJag |-> "absent"],
      [actorNamed |-> TRUE,  onBehalfOf |-> FALSE, idJag |-> "with subject"],
      [actorNamed |-> TRUE,  onBehalfOf |-> FALSE, idJag |-> "without subject"],
      [actorNamed |-> FALSE, onBehalfOf |-> FALSE, idJag |-> "absent"] }

\* The system log entry of an exchange, as the backend hands it to the page
OktaLogOf(idJag, outcome, shape) ==
    [ event_type |-> "app.oauth2.token.grant",
      outcome |-> [result |-> IF outcome.result = "token" THEN "SUCCESS" ELSE "FAILURE"],
      actor |-> Some([id |-> idJag.agent,
                      name |-> IF shape.actorNamed THEN Some(AgentDisplayName) ELSE Some("")]),
      user_on_behalf_of |-> IF shape.onBehalfOf
                            THEN Some([name |-> idJag.user.name]) ELSE Undefined,
      id_jag |-> IF shape.idJag = "absent" THEN Undefined
                 ELSE IF shape.idJag = "without subject" THEN Some([subject |-> Undefined])
                 ELSE Some([subject |-> Some(idJag.user.name)]) ]

\* Variant: the user column is read from the subject of the assertion only
Attribution_NoOnBehalfOf(log) ==
    [ agent |-> IF IsDefined(log.actor) /\ Truthy(Val(log.actor).name)
                THEN Val(Val(log.actor).name) ELSE "Unknown",
      user  |-> IF IsDefined(log.id_jag) /\ Truthy(Val(log.id_jag).subject)
                THEN Val(Val(log.id_jag).subject)
                ELSE "Not available" ]

\* OktaSystemLog, "Attribution - Agent and User": what the two columns of a
\* log entry show
Attribution(log) ==
    [ agent |-> IF IsDefined(log.actor) /\ Truthy(Val(log.actor).name)
                THEN Val(Val(log.actor).name) ELSE "Unknown",
      user  |-> IF IsDefined(log.user_on_behalf_of)
                THEN Val(log.user_on_behalf_of).name
                ELSE IF IsDefined(log.id_jag) /\ Truthy(Val(log.id_jag).subject)
                THEN Val(Val(log.id_jag).subject)
                ELSE "Not available" ]

\* A user signs in
SignIn ==
    /\ session.user = Undefined
    /\ \E u \in DemoUsers : session' = [session EXCEPT !.user = Some(u)]
    /\ UNCHANGED <<serverVars, exchanges, issued, appVars>>

\* Step 1 of the exchange
RequestAssertion ==
    /\ IsDefined(session.user)
    /\ session.idJag = Undefined
    /\ \E shape \in LogShapes :
          session' = [session EXCEPT
                         !.idJag = Some(DelegationAssertion(AgentId, Val(session.user))),
                         !.logShape = Some(shape)]
    /\ UNCHANGED <<serverVars, exchanges, issued, appVars>>

\* Step 2 of the exchange, for one MCP server
RequestScopedToken ==
    /\ IsDefined(session.idJag)
    /\ Len(issued) < MaxExchanges
    /\ \E server \in Servers : \E requested \in ScopeRequests(server) :
          LET o == ScopedAccess(Val(session.idJag), server, requested) IN
          issued' = Append(issued,
                       [ server |-> o.server, requested |-> o.requested,
                         result |-> o.result, token |-> o.token,
                         log |-> OktaLogOf(Val(session.idJag), o, Val(session.logShape)) ])
    /\ UNCHANGED <<serverVars, exchanges, session, appVars>>

ExchangeInit == CardInit

ExchangeNext == SignIn \/ RequestAssertion \/ RequestScopedToken

ExchangeSpec == ExchangeInit /\ [][ExchangeNext]_vars

---------------------------------------------------------------------------
SignedInUser == Val(session.user)
Outcomes == {issued[i] : i \in 1..Len(issued)}

\* The log entry names the acting agent / carries the delegating user
NamesActor(log) == IsDefined(log.actor) /\ Truthy(Val(log.actor).name)
CarriesUser(log) ==
    \/ IsDefined(log.user_on_behalf_of)
    \/ IsDefined(log.id_jag) /\ Truthy(Val(log.id_jag).subject)

---------------------------------------------------------------------------
\* The servers for which the group obtains a token when its agent asks for
\* the read scope, and those for which some request of it is granted
TokenFor(group)   == {s \in Servers : PolicyAllows(group, s, {ReadScope(s)})}
SomeGrant(group)  == {s \in Servers : \E req \in ScopeRequests(s) : PolicyAllows(group, s, req)}

\* C20: access by group follows the access matrix under the policy rules.
\* A ProGear-Sales user obtains a token for all four MCP servers, a
\* ProGear-Warehouse user for Inventory only, a ProGear-Finance user for
\* Pricing only, as both matrices say; every exchange for another (group,
\* server) pair, whatever the scopes asked for, ends in access denied, and
\* every token issued is for a pair the matrix allows and for scopes of a
\* rule of the group.
C20_AccessFollowsMatrix ==
    /\ TokenFor("ProGear-Sales") = Servers
    /\ TokenFor("ProGear-Warehouse") = {"inventory"}
    /\ TokenFor("ProGear-Finance") = {"pricing"}
    /\ \A u \in DemoUsers : \A s \in Servers :
          /\ (AccessMatrix[u.group][s] # "None") <=> (s \in TokenFor(u.group))
          /\ UserAccessMatrix[u.name][s] <=> (s \in TokenFor(u.group))
          /\ SomeGrant(u.group) = TokenFor(u.group)
    /\ \A o \in Outcomes :
          /\ o.result \in {"token", "access_denied"}
          /\ AccessMatrix[SignedInUser.group][o.server] = "None" => o.result = "access_denied"
          /\ o.result = "token" =>
                /\ UserAccessMatrix[SignedInUser.name][o.server]
                /\ Val(o.token).scp = o.requested
                /\ Val(o.token).aud = Audience(o.server)
                /\ \E rule \in PolicyRules[o.server] :
                      rule.group = SignedInUser.group /\ o.requested \subseteq rule.scopes
          /\ (o.requested = {ReadScope(o.server)} /\ UserAccessMatrix[SignedInUser.name][o.server])
                => o.result = "token"

C20_Witness ==
    /\ IsDefined(session.user) /\ SignedInUser.group = "ProGear-Sales"
    /\ Len(issued) = 2
    /\ issued[1].server = "inventory" /\ issued[1].requested = {"inventory:read"}
    /\ issued[1].result = "token"
    /\ issued[2].server = "pricing" /\ issued[2].requested = {"pricing:read"}
    /\ issued[2].result = "token"

---------------------------------------------------------------------------
Decisions(r) == reqs[r].nextCalls + reqs[r].sent

\* C22: validateToken reaches exactly one decision for every request.  A
\* request whose validateToken has returned had next() called once or one
\* 401 sent, never both and never neither, also when jwtVerify threw; until
\* then, and while it waits in jwtVerify, neither has happened; and no step
\* adds a decision to a request that has one.
C22_ExactlyOneDecision ==
    /\ [](\A r \in Requests :
            /\ Decided(r) =>
                  /\ Decisions(r) = 1
                  /\ reqs[r].nextCalls = 1 <=> ~Got401(r)
                  /\ reqs[r].sent = 1 <=> Got401(r)
                  /\ ~reqs[r].threw
            /\ ~Decided(r) => Decisions(r) = 0 /\ reqs[r].res = NoResponse)
    /\ [][\A r \in Requests : Decisions(r) = 1 => reqs'[r] = reqs[r]]_vars

C22_Witness ==
    \E r1, r2 \in Requests :
        /\ VerifyFailed(r1) /\ reqs[r1].sent = 1 /\ reqs[r1].nextCalls = 0
        /\ Decided(r2) /\ reqs[r2].verifyCalls = 1
        /\ reqs[r2].nextCalls = 1 /\ reqs[r2].sent = 0

---------------------------------------------------------------------------
\* C23: the demo-token bypass is independent of configuration.  Under every
\* NODE_ENV, with or without an issuer, a bearer token starting with
\* demo-token is admitted in the call that received it, through the demo
\* branch, and jwtVerify is never called for it, so the key set is not
\* consulted and its cache is left as it was.
C23_DemoBypassIgnoresConfiguration ==
    /\ env.NODE_ENV \in NodeEnvs /\ env.OKTA_ISSUER \in IssuerEnvs
    /\ \A r \in Requests :
          HasDemoPrefix(r) =>
              /\ Decided(r)
              /\ reqs[r].nextCalls = 1 /\ reqs[r].sent = 0 /\ ~Got401(r)
              /\ reqs[r].logged = "[MCP] Demo token accepted"
              /\ reqs[r].verifyCalls = 0 /\ ~reqs[r].coldCall
    /\ (\A r \in Requests : Arrived(r) => HasDemoPrefix(r)) => ~keysCached

C23_Witness ==
    /\ env.NODE_ENV = Some("production") /\ IssuerSet /\ ~keysCached
    /\ \E r \in Requests :
          /\ reqs[r].authorization = Some("Bearer demo-token-123 x")
          /\ Admitted(r) /\ reqs[r].verifyCalls = 0

---------------------------------------------------------------------------
\* Request r came with a header that does not start with 'Bearer '
NonBearerHeader(r) ==
    /\ Arrived(r)
    /\ IsDefined(reqs[r].authorization)
    /\ ~StartsWith(Val(reqs[r].authorization), "Bearer ")

\* What validateToken leaves of a request, but for the header it arrived with
Handling(q) == [q EXCEPT !.authorization = Undefined]

\* C24: a header that is present but does not start with 'Bearer ' is
\* handled exactly like a missing header: admitted without identity in
\* development, otherwise rejected with 401 'Missing authorization header',
\* in both cases as validateToken handles a request without header; no
\* token is taken from it, so it is neither matched against the demo
\* prefix nor given to jwtVerify.
C24_NonBearerHandledAsMissing ==
    \A r \in Requests :
        NonBearerHeader(r) =>
            /\ Decided(r)
            /\ Handling(reqs[r]) =
                  Handling(validateToken([FreshReq EXCEPT !.category = reqs[r].category],
                                         Undefined, env.NODE_ENV, jwks))
            /\ Development =>
                  /\ reqs[r].nextCalls = 1 /\ reqs[r].sent = 0
                  /\ reqs[r].user = Undefined
            /\ ~Development =>
                  /\ reqs[r].nextCalls = 0
                  /\ reqs[r].res = [status |-> 401, body |-> "Missing authorization header"]
            /\ reqs[r].token = Undefined
            /\ reqs[r].verifyCalls = 0
            /\ reqs[r].logged # "[MCP] Demo token accepted"

C24_Witness ==
    \E r1, r2 \in Requests :
        /\ ~Development /\ IssuerSet
        /\ reqs[r1].authorization = Some("Basic demo-token") /\ Got401(r1)
        /\ reqs[r2].authorization = Some("bearer eyJ.ok.sig") /\ Got401(r2)

---------------------------------------------------------------------------
\* The Denied count of the summary, 0 when the card does not show it
DeniedCount == IF IsDefined(Card.deniedCount) THEN Val(Card.deniedCount) ELSE 0
DeniedBadges == Cardinality({i \in 1..Len(exchanges) : Card.rows[i].badge = "Denied"})
\* The exchanges that failed without being denied by policy
FailedExchanges ==
    {i \in 1..Len(exchanges) : ~exchanges[i].success /\ ~exchanges[i].access_denied}

\* C27 as stated: the summary counts partition the list, and the Denied
\* count is the number of rows with a Denied badge.
C27_CountsPartitionList ==
    /\ Card.grantedCount + DeniedCount = Len(exchanges)
    /\ DeniedCount = DeniedBadges

\* C27 amended: every exchange is counted at most once; the exchanges that
\* failed without access_denied are in neither count though their row has
\* the Denied badge, so Granted + Denied + failed is the length of the list
\* and the Denied badges are the Denied count plus the failed ones.
C27_CountsPartitionAllButFailed ==
    /\ Card.grantedCount + DeniedCount + Cardinality(FailedExchanges) = Len(exchanges)
    /\ DeniedBadges = DeniedCount + Cardinality(FailedExchanges)
    /\ DeniedCount = Cardinality({i \in 1..Len(exchanges) : exchanges[i].access_denied})
    /\ \A i \in 1..Len(exchanges) :
          ~(IsGranted(exchanges[i]) /\ exchanges[i].access_denied)
    /\ IsDefined(Card.deniedCount) <=> DeniedCount > 0

C27_Witness ==
    /\ Len(exchanges) = 2
    /\ FailedExchanges = {1} /\ IsDefined(exchanges[1].error)
    /\ exchanges[2].access_denied
    /\ Card.grantedCount = 0 /\ Card.deniedCount = Some(1) /\ DeniedBadges = 2

(***************************************************************************)
(* The Next.js application: lib/auth.ts (the NextAuth options) and the     *)
(* debug-env route.  Both read process.env, here nextEnv.                  *)
(***************************************************************************)

OrgUrl == "https://your-org.okta.com"

\* The environments the application is started in: each of the variables
\* the claims are about unset, set to the empty string, or set.
NextEnvs ==
    [ NEXT_PUBLIC_OKTA_ISSUER    : {Undefined, Some(""), Some(OrgUrl)},
      NEXT_PUBLIC_OKTA_DOMAIN    : {Undefined, Some(""), Some(OrgUrl)},
      NEXT_PUBLIC_OKTA_CLIENT_ID : {Some("0oa1client")},
      OKTA_CLIENT_SECRET         : {Undefined, Some(""), Some("abcd"), Some("wxyz"), Some("abcdefgh")},
      NEXTAUTH_SECRET            : {Undefined, Some(""), Some("n1"), Some("n2-longer")},
      NEXTAUTH_URL               : {Some("http://localhost:3000")},
      NEXT_PUBLIC_API_URL        : {Undefined} ]

\* The url has a path /oauth2/<id> with a non-empty id
HasAuthServerId(url) ==
    \E i \in 1..(Len(url) - 8) :
        /\ SubSeq(url, i, i + 7) = "/oauth2/"
        /\ SubSeq(url, i + 8, i + 8) # "/"

\* const oktaDomain = process.env.NEXT_PUBLIC_OKTA_DOMAIN || ''
oktaDomain(e) == OrElse(e.NEXT_PUBLIC_OKTA_DOMAIN, "")

\* const oktaIssuer = process.env.NEXT_PUBLIC_OKTA_ISSUER || `${oktaDomain}/oauth2/default`
oktaIssuer(e) == OrElse(e.NEXT_PUBLIC_OKTA_ISSUER, oktaDomain(e) \o "/oauth2/default")

\* The `okta` provider of authOptions.providers
OktaProvider(e) ==
    [ id           |-> "okta",
      name         |-> "Okta",
      type         |-> "oauth",
      wellKnown    |-> oktaIssuer(e) \o "/.well-known/openid-configuration",
      clientId     |-> e.NEXT_PUBLIC_OKTA_CLIENT_ID,
      clientSecret |-> OrElse(e.OKTA_CLIENT_SECRET, "not-used-for-pkce") ]

\* What Okta hands to the jwt callback at sign-in
Accounts ==
    { [access_token |-> "at-1", id_token |-> "id-1", provider |-> "okta"],
      [access_token |-> "at-2", id_token |-> "id-2", provider |-> "okta"] }
Profiles == { [sub |-> "00u-sarah"], [sub |-> "00u-mike"] }
\* The session objects NextAuth passes to the session callback
SessionInputs ==
    { [user |-> [name |-> "Sarah Sales", email |-> "sarah@progear.example", image |-> "https://progear.example/sarah.png"],
       expires |-> "2026-11-28T00:00:00.000Z"],
      [user |-> [name |-> "Mike Manager"], expires |-> "2026-11-29T00:00:00.000Z"] }

\* A jwt callback that assigns the account's fields whether or not an
\* account was passed
jwt_AssignsWithoutAccount(token, account, profile) ==
    LET t1 == [token EXCEPT
                 !.accessToken = IF IsDefined(account) THEN Some(Val(account).access_token) ELSE Undefined,
                 !.idToken     = IF IsDefined(account) THEN Some(Val(account).id_token) ELSE Undefined,
                 !.provider    = IF IsDefined(account) THEN Some(Val(account).provider) ELSE Undefined]
    IN  IF IsDefined(profile) THEN [t1 EXCEPT !.sub = Some(Val(profile).sub)] ELSE t1

\* callbacks.jwt({ token, account, profile })
jwt(token, account, profile) ==
    LET t1 == IF IsDefined(account)
              THEN [token EXCEPT !.accessToken = Some(Val(account).access_token),
                                 !.idToken     = Some(Val(account).id_token),
                                 !.provider    = Some(Val(account).provider)]
              ELSE token
    IN  IF IsDefined(profile) THEN [t1 EXCEPT !.sub = Some(Val(profile).sub)] ELSE t1

\* callbacks.session({ session, token })
\* The session it is given, with accessToken, idToken and user.id set and
\* every other field as it was
sessionCallback(sess, token) ==
    LET user == [k \in DOMAIN sess.user \cup {"id"} |->
                    IF k = "id" THEN token.sub ELSE sess.user[k]]
    IN  [k \in DOMAIN sess \cup {"accessToken", "idToken", "user"} |->
            CASE k = "accessToken" -> token.accessToken
              [] k = "idToken"     -> token.idToken
              [] k = "user"        -> user
              [] OTHER             -> sess[k]]

\* NextAuth invokes the jwt callback: with account and profile at sign-in,
\* without them whenever the JWT is read again
JwtCallback ==
    /\ \E account \in {Undefined} \cup {Some(a) : a \in Accounts},
          profile \in {Undefined} \cup {Some(pr) : pr \in Profiles} :
          auth' = [auth EXCEPT !.token   = jwt(auth.token, account, profile),
                               !.account = IF IsDefined(account) THEN account ELSE @]
    /\ UNCHANGED <<serverVars, exchanges, session, issued, nextEnv, debugResponse, logPage>>

\* NextAuth invokes the session callback with the JWT it keeps
SessionCallback ==
    /\ \E sess \in SessionInputs :
          auth' = [auth EXCEPT !.session = Some(sessionCallback(sess, auth.token))]
    /\ UNCHANGED <<serverVars, exchanges, session, issued, nextEnv, debugResponse, logPage>>

\* A debug-env response that echoes the NextAuth secret the way it echoes
\* the issuer and the domain
GET_EchoesSecret(e) ==
    [ hasClientId        |-> Truthy(e.NEXT_PUBLIC_OKTA_CLIENT_ID),
      clientIdLength     |-> IF IsDefined(e.NEXT_PUBLIC_OKTA_CLIENT_ID)
                             THEN Len(Val(e.NEXT_PUBLIC_OKTA_CLIENT_ID)) ELSE 0,
      hasClientSecret    |-> Truthy(e.OKTA_CLIENT_SECRET),
      clientSecretLength |-> IF IsDefined(e.OKTA_CLIENT_SECRET)
                             THEN Len(Val(e.OKTA_CLIENT_SECRET)) ELSE 0,
      hasIssuer          |-> Truthy(e.NEXT_PUBLIC_OKTA_ISSUER),
      issuer             |-> OrElse(e.NEXT_PUBLIC_OKTA_ISSUER, "NOT SET"),
      hasDomain          |-> Truthy(e.NEXT_PUBLIC_OKTA_DOMAIN),
      domain             |-> OrElse(e.NEXT_PUBLIC_OKTA_DOMAIN, "NOT SET"),
      hasNextAuthSecret  |-> OrElse(e.NEXTAUTH_SECRET, "NOT SET"),
      hasNextAuthUrl     |-> Truthy(e.NEXTAUTH_URL),
      nextAuthUrl        |-> OrElse(e.NEXTAUTH_URL, "NOT SET"),
      hasApiUrl          |-> Truthy(e.NEXT_PUBLIC_API_URL),
      apiUrl             |-> OrElse(e.NEXT_PUBLIC_API_URL, "NOT SET (will use localhost:8000)") ]

\* export async function GET(): the body of the JSON response
GET(e) ==
    [ hasClientId        |-> Truthy(e.NEXT_PUBLIC_OKTA_CLIENT_ID),
      clientIdLength     |-> IF IsDefined(e.NEXT_PUBLIC_OKTA_CLIENT_ID)
                             THEN Len(Val(e.NEXT_PUBLIC_OKTA_CLIENT_ID)) ELSE 0,
      hasClientSecret    |-> Truthy(e.OKTA_CLIENT_SECRET),
      clientSecretLength |-> IF IsDefined(e.OKTA_CLIENT_SECRET)
                             THEN Len(Val(e.OKTA_CLIENT_SECRET)) ELSE 0,
      hasIssuer          |-> Truthy(e.NEXT_PUBLIC_OKTA_ISSUER),
      issuer             |-> OrElse(e.NEXT_PUBLIC_OKTA_ISSUER, "NOT SET"),
      hasDomain          |-> Truthy(e.NEXT_PUBLIC_OKTA_DOMAIN),
      domain             |-> OrElse(e.NEXT_PUBLIC_OKTA_DOMAIN, "NOT SET"),
      hasNextAuthSecret  |-> Truthy(e.NEXTAUTH_SECRET),
      hasNextAuthUrl     |-> Truthy(e.NEXTAUTH_URL),
      nextAuthUrl        |-> OrElse(e.NEXTAUTH_URL, "NOT SET"),
      hasApiUrl          |-> Truthy(e.NEXT_PUBLIC_API_URL),
      apiUrl             |-> OrElse(e.NEXT_PUBLIC_API_URL, "NOT SET (will use localhost:8000)") ]

\* A client requests the debug-env route
DebugEnvGet ==
    /\ debugResponse' = Some(GET(nextEnv))
    /\ UNCHANGED <<serverVars, exchanges, session, issued, nextEnv, auth, logPage>>

\* The application starts in any of the environments; the MCP server runs
\* as documented and takes no part.
AuthInit ==
    /\ env = [NODE_ENV |-> Some("production"), OKTA_ISSUER |-> Some(IssuerUrl),
              OKTA_CUSTOM_AUTH_SERVER_AUDIENCE |-> Some(SalesAud)]
    /\ OKTA_ISSUER = OrElse(env.OKTA_ISSUER, "")
    /\ OKTA_AUDIENCE = OrElse(env.OKTA_CUSTOM_AUTH_SERVER_AUDIENCE, "")
    /\ jwks = LoadJwks(OrElse(env.OKTA_ISSUER, ""))
    /\ keysCached = FALSE
    /\ reqs = [r \in Requests |-> FreshReq]
    /\ exchanges = <<>>
    /\ session = NoSession
    /\ issued = <<>>
    /\ nextEnv \in NextEnvs
    /\ auth = NoAuth
    /\ debugResponse = Undefined
    /\ logPage = FreshLogPage

AuthNext == JwtCallback \/ SessionCallback \/ DebugEnvGet

AuthSpec == AuthInit /\ [][AuthNext]_vars

\* C21: the issuer of the NextAuth Okta provider and its discovery URL never
\* contain an authorization-server id path /oauth2/<id>, whichever of
\* NEXT_PUBLIC_OKTA_ISSUER and NEXT_PUBLIC_OKTA_DOMAIN are set.
C21_SignInUsesOrgIssuer ==
    /\ ~HasAuthServerId(oktaIssuer(nextEnv))
    /\ ~HasAuthServerId(OktaProvider(nextEnv).wellKnown)

\* The two environments differ at most in the content of OKTA_CLIENT_SECRET
\* and NEXTAUTH_SECRET: each secret is present in both or in neither (present
\* as the route reports it: set and not empty), the client secrets have the
\* same length, and every other variable is the same.
DifferOnlyInSecretContent(e1, e2) ==
    /\ Truthy(e1.OKTA_CLIENT_SECRET) <=> Truthy(e2.OKTA_CLIENT_SECRET)
    /\ Truthy(e1.NEXTAUTH_SECRET) <=> Truthy(e2.NEXTAUTH_SECRET)
    /\ Truthy(e1.OKTA_CLIENT_SECRET) => Len(Val(e1.OKTA_CLIENT_SECRET)) = Len(Val(e2.OKTA_CLIENT_SECRET))
    /\ \A k \in DOMAIN e1 \ {"OKTA_CLIENT_SECRET", "NEXTAUTH_SECRET"} : e1[k] = e2[k]

\* C25: the debug-env response does not depend on the content of
\* OKTA_CLIENT_SECRET or NEXTAUTH_SECRET: any environment that differs from
\* the running one only in the content of those secrets (same presence, same
\* client-secret length) gives the response that was returned.
C25_DebugEnvHidesSecretContent ==
    IsDefined(debugResponse) =>
        \A e2 \in NextEnvs :
            DifferOnlyInSecretContent(nextEnv, e2) => GET(e2) = Val(debugResponse)

C25_Witness ==
    /\ IsDefined(debugResponse)
    /\ nextEnv.OKTA_CLIENT_SECRET = Some("abcd")
    /\ nextEnv.NEXTAUTH_SECRET = Some("n1")
    /\ \E e2 \in NextEnvs :
          /\ DifferOnlyInSecretContent(nextEnv, e2)
          /\ e2.OKTA_CLIENT_SECRET = Some("wxyz")
          /\ e2.NEXTAUTH_SECRET = Some("n2-longer")
    /\ Val(debugResponse).hasClientSecret /\ Val(debugResponse).clientSecretLength = 4

\* C26: once the jwt callback has received an account, the stored
\* accessToken, idToken and provider are that account's, and a jwt callback
\* without an account leaves them as they are; a session callback returns
\* exactly the stored accessToken and idToken, and user.id = token.sub.
C26_TokensKeptAndExposed ==
    /\ [](IsDefined(auth.account) =>
            /\ auth.token.accessToken = Some(Val(auth.account).access_token)
            /\ auth.token.idToken = Some(Val(auth.account).id_token)
            /\ auth.token.provider = Some(Val(auth.account).provider))
    /\ [][auth'.account = auth.account =>
            /\ auth'.token.accessToken = auth.token.accessToken
            /\ auth'.token.idToken = auth.token.idToken
            /\ auth'.token.provider = auth.token.provider]_vars
    /\ [][auth'.session # auth.session =>
            /\ IsDefined(auth'.session)
            /\ "provider" \notin DOMAIN Val(auth'.session)
            /\ {"expires", "user"} \subseteq DOMAIN Val(auth'.session)
            /\ "name" \in DOMAIN Val(auth'.session).user
            /\ Val(auth'.session).accessToken = auth.token.accessToken
            /\ Val(auth'.session).idToken = auth.token.idToken
            /\ Val(auth'.session).user.id = auth.token.sub]_vars

\* Signed in with the first account, the JWT read again with a new profile
\* but no account, and a session returned from it
C26_Witness ==
    /\ IsDefined(auth.account) /\ Val(auth.account).access_token = "at-1"
    /\ auth.token.accessToken = Some("at-1")
    /\ auth.token.sub = Some("00u-mike")
    /\ IsDefined(auth.session)
    /\ Val(auth.session).accessToken = Some("at-1")
    /\ Val(auth.session).user.id = Some("00u-mike")

(***************************************************************************)
(* OktaSystemLog: the React component that shows the Okta system log,      *)
(* rendered inside the collapsible section "Audit Trail (Okta Syslog)" of  *)
(* the architecture page.  logPage.open is the section's isOpen;           *)
(* logPage.logs, .loading, .error and .lastRefresh are the useState values *)
(* of the mounted instance (null is Undefined); logPage.calls are the      *)
(* fetchLogs calls made so far by any instance, each with the instance     *)
(* that made it and the place it has reached.  The state updates of one    *)
(* synchronous stretch of fetchLogs are committed together, and a click is *)
(* handled on the committed render: the effect runs once per mount, as in  *)
(* a production build.                                                     *)
(***************************************************************************)

\* The most fetchLogs calls considered, those made on mount included
MaxFetches == 3

\* What the backend can answer to GET /api/okta/logs: no answer at all, a
\* status outside 200..299, or a 200 whose body parses or does not.
LogBodies ==
    { [json |-> FALSE, error |-> <<>>, logs |-> <<>>],
      [json |-> TRUE, error |-> Some("Okta API token not configured"), logs |-> Some(<<>>)],
      [json |-> TRUE, error |-> Some("rate limited"), logs |-> Some(<<"log-1">>)],
      [json |-> TRUE, error |-> Some(""), logs |-> Some(<<"log-1">>)],
      [json |-> TRUE, error |-> Undefined, logs |-> Some(<<"log-1", "log-2">>)],
      [json |-> TRUE, error |-> Undefined, logs |-> Some(<<>>)],
      [json |-> TRUE, error |-> Undefined, logs |-> Undefined] }
LogResponses ==
    { [rejected |-> TRUE, ok |-> FALSE, status |-> 0, body |-> <<>>] }
    \cup { [rejected |-> FALSE, ok |-> FALSE, status |-> st, body |-> <<>>] : st \in {401, 500} }
    \cup { [rejected |-> FALSE, ok |-> TRUE, status |-> 200, body |-> Some(b)] : b \in LogBodies }

\* `${response.status}`
StatusText(st) ==
    CASE st = 401 -> "401" [] st = 500 -> "500" [] st = 200 -> "200" [] OTHER -> "0"

\* The calls of fetchLogs that have not returned yet
InFlight(page) == {c \in 1..Len(page.calls) : page.calls[c].pc # "done"}

\* Call c was made by the instance that is mounted
OfMounted(page, c) == page.mounted /\ page.calls[c].inst = page.instance

\* <button onClick={fetchLogs} disabled={loading}> with the attribute left out
RefreshDisabled_Never(page) == FALSE

\* <button onClick={fetchLogs} disabled={loading}>
RefreshDisabled(page) == page.loading

\* fetchLogs up to its first await: setLoading(true); setError(null); fetch(...)
StartFetch(page, by) ==
    [page EXCEPT !.loading = TRUE,
                 !.error = Undefined,
                 !.calls = Append(@, [by |-> by, inst |-> page.instance, pc |-> "fetch",
                                      body |-> <<>>, outcome |-> "pending"])]

\* A catch block that reports the error and leaves the list as it is
catchBlock_KeepsLogs(page, message) ==
    [page EXCEPT !.error = Some(message)]

\* catch (err) { setError(err instanceof Error ? err.message : ...); setLogs([]); }
catchBlock(page, message) ==
    [page EXCEPT !.error = Some(message), !.logs = <<>>]

\* finally { setLoading(false); } and the call returns
finallyBlock(page, c, outcome) ==
    [page EXCEPT !.loading = FALSE,
                 !.calls[c].pc = "done", !.calls[c].body = <<>>, !.calls[c].outcome = outcome]

\* The rest of the try block once response.json() has given data
OnData(page, c, data) ==
    IF Truthy(data.error)
    THEN finallyBlock([page EXCEPT !.error = data.error, !.logs = <<>>, !.lastRefresh = Some(c)],
                      c, "errorBody")
    ELSE finallyBlock([page EXCEPT !.logs = IF IsDefined(data.logs) THEN Val(data.logs) ELSE <<>>,
                                   !.lastRefresh = Some(c)],
                      c, "success")

\* React applies the set calls of call c to the instance that made it: when
\* that instance is no longer mounted they are dropped, and only the call
\* itself has moved on.
Commit(page, c, next) ==
    IF OfMounted(page, c) THEN next ELSE [page EXCEPT !.calls = next.calls]

\* A new instance of OktaSystemLog is mounted: its state is what useState
\* gives, and useEffect(() => { fetchLogs(); }, []) runs
MountInstance(page) ==
    StartFetch([page EXCEPT !.logs = <<>>, !.loading = TRUE, !.error = Undefined,
                            !.lastRefresh = Undefined,
                            !.open = TRUE, !.mounted = TRUE, !.instance = @ + 1],
               "effect")

\* The architecture page is rendered for the first time, the section open
Mount ==
    /\ logPage.instance = 0 /\ logPage.open
    /\ logPage' = MountInstance(logPage)
    /\ UNCHANGED <<serverVars, exchanges, session, issued, nextEnv, auth, debugResponse>>

\* The user clicks the header of the section: setIsOpen(!isOpen).  Closing
\* unmounts OktaSystemLog and its state is gone; opening mounts a new one.
ToggleSection ==
    /\ logPage.instance > 0
    /\ IF logPage.open
       THEN logPage' = [logPage EXCEPT !.open = FALSE, !.mounted = FALSE,
                                       !.logs = <<>>, !.loading = TRUE,
                                       !.error = Undefined, !.lastRefresh = Undefined]
       ELSE /\ Len(logPage.calls) < MaxFetches
            /\ logPage' = MountInstance(logPage)
    /\ UNCHANGED <<serverVars, exchanges, session, issued, nextEnv, auth, debugResponse>>

\* The user clicks Refresh, which a disabled button does not let happen
ClickRefresh ==
    /\ logPage.mounted
    /\ ~RefreshDisabled(logPage)
    /\ Len(logPage.calls) < MaxFetches
    /\ logPage' = StartFetch(logPage, "user")
    /\ UNCHANGED <<serverVars, exchanges, session, issued, nextEnv, auth, debugResponse>>

\* await fetch(...) settles for call c: a rejection and a response that is
\* not ok both end in the catch block, an ok response goes on to json()
FetchSettles(c) ==
    /\ c \in InFlight(logPage) /\ logPage.calls[c].pc = "fetch"
    /\ \E resp \in LogResponses :
          logPage' = Commit(logPage, c,
             IF resp.rejected
             THEN finallyBlock(catchBlock(logPage, "Failed to fetch"), c, "network")
             ELSE IF ~resp.ok
             THEN finallyBlock(catchBlock(logPage, "HTTP error: " \o StatusText(resp.status)), c, "http")
             ELSE [logPage EXCEPT !.calls[c].pc = "json", !.calls[c].body = resp.body])
    /\ UNCHANGED <<serverVars, exchanges, session, issued, nextEnv, auth, debugResponse>>

\* await response.json() settles for call c
JsonSettles(c) ==
    /\ c \in InFlight(logPage) /\ logPage.calls[c].pc = "json"
    /\ LET data == Val(logPage.calls[c].body) IN
          logPage' = Commit(logPage, c,
             IF ~data.json
             THEN finallyBlock(catchBlock(logPage, "Unexpected token < in JSON at position 0"), c, "json")
             ELSE OnData(logPage, c, data))
    /\ UNCHANGED <<serverVars, exchanges, session, issued, nextEnv, auth, debugResponse>>

LogInit == CardInit

LogNext ==
    \/ Mount
    \/ ToggleSection
    \/ ClickRefresh
    \/ \E c \in 1..MaxFetches : FetchSettles(c)
    \/ \E c \in 1..MaxFetches : JsonSettles(c)

LogSpec == LogInit /\ [][LogNext]_vars

\* The ways a fetchLogs call ends in failure
FailureOutcomes == {"network", "http", "json", "errorBody"}
\* Call c returns in this step
Completes(c) ==
    /\ c \in InFlight(logPage)
    /\ c \in 1..Len(logPage'.calls) /\ logPage'.calls[c].pc = "done"
\* A call of fetchLogs starts in this step
Starts == Len(logPage'.calls) > Len(logPage.calls)
\* The user starts a call of fetchLogs in this step
UserStarts == Starts /\ logPage'.calls[Len(logPage'.calls)].by = "user"
\* The calls in flight that the mounted instance made
OwnInFlight == {c \in InFlight(logPage) : OfMounted(logPage, c)}
\* The calls in flight that the user started with Refresh
UserInFlight == {c \in InFlight(logPage) : logPage.calls[c].by = "user"}

\* C28: every fetchLogs call that ends in failure (network, HTTP status,
\* JSON, error field) sets the error and empties the log list of the
\* instance of OktaSystemLog that made it; every new fetchLogs call clears
\* the error; so whenever the error is not null the log list is empty, for
\* any sequence of refreshes.
C28_ErrorMeansNoLogs ==
    /\ [][\A c \in 1..MaxFetches :
            Completes(c) /\ OfMounted(logPage, c)
                         /\ logPage'.calls[c].outcome \in FailureOutcomes =>
                IsDefined(logPage'.error) /\ logPage'.logs = <<>>]_vars
    /\ [][Starts => logPage'.error = Undefined]_vars
    /\ [](IsDefined(logPage.error) => logPage.logs = <<>>)

\* A refresh that failed after an earlier one had filled the list
C28_Witness ==
    /\ Len(logPage.calls) = 2 /\ InFlight(logPage) = {}
    /\ logPage.instance = 1 /\ logPage.mounted
    /\ logPage.calls[1].outcome = "success" /\ logPage.lastRefresh = Some(1)
    /\ logPage.calls[2].outcome = "http"
    /\ logPage.error = Some("HTTP error: 500") /\ logPage.logs = <<>>

\* C29 as stated: loading is true while a fetchLogs call is in flight and
\* false once the call has returned, whichever way it ended; no fetch is
\* started by the user while one is in flight, so at most one fetch started
\* by the user is outstanding.
C29_LoadingGuardsRefresh ==
    /\ [](InFlight(logPage) # {} => logPage.loading)
    /\ [][\A c \in 1..MaxFetches : Completes(c) => ~logPage'.loading]_vars
    /\ [][UserStarts => InFlight(logPage) = {}]_vars
    /\ [](Cardinality(UserInFlight) <= 1)

\* C29 amended: the same of the mounted instance and the calls it made;
\* a call whose instance was unmounted leaves loading as it is.
C29_LoadingGuardsRefreshWhileMounted ==
    /\ [](OwnInFlight # {} => logPage.loading)
    /\ [][\A c \in 1..MaxFetches :
            Completes(c) => IF OfMounted(logPage, c) THEN ~logPage'.loading
                            ELSE logPage'.loading = logPage.loading]_vars
    /\ [][UserStarts => OwnInFlight = {}]_vars
    /\ [](Cardinality(OwnInFlight) <= 1)
    /\ [](logPage.mounted /\ OwnInFlight = {} => ~logPage.loading)

\* The section was collapsed and reopened during the user's refresh: that
\* refresh is still in flight, the fetch of the new instance is in flight
\* too and Refresh is disabled
C29_Witness ==
    /\ Len(logPage.calls) = 3
    /\ logPage.calls[1].pc = "done"
    /\ UserInFlight = {2} /\ ~OfMounted(logPage, 2)
    /\ OwnInFlight = {3}
    /\ logPage.loading
    /\ ~ENABLED ClickRefresh

====
